---- MODULE Spec2Model ----
(***************************************************************************)
(* Web-Engine: external-memory inverted index construction                 *)
(* (DiskBasedIndexer, build_index_disk) and boolean-AND retrieval          *)
(* (M3SearchEngine).                                                       *)
(*                                                                         *)
(* Strings of the program are sequences: a URL is a sequence of            *)
(* characters, a text is a sequence of whitespace/punctuation separated    *)
(* words, a JSON object key made by str(doc_id) is a sequence of decimal   *)
(* digits.  A Python dict is a function whose DOMAIN is its key set.       *)
(***************************************************************************)
EXTENDS Integers, Sequences, FiniteSets, TLC

(***************************************************************************)
(* Bounds of the model.                                                    *)
(***************************************************************************)
MaxFiles == 3            \* corpus files fed to one build (Spec)
MaxThreshold == 2        \* largest max_docs_in_memory tried
MaxTokenFiles == 2       \* corpus files fed to one build (SpecTokens)
MaxWords == 2            \* words in a record's body text (SpecTokens)
MaxImportantWords == 1   \* words in a record's important text (SpecTokens)
MaxDocs == 2             \* documents of the index searched (SpecSearch)
MaxQueryWords == 2       \* words of a query (SpecSearch)

(***************************************************************************)
(* Generic dict / sequence helpers.                                        *)
(***************************************************************************)
EmptyDict == <<>>

Range(s) == {s[i] : i \in DOMAIN s}

Get(d, k, default) == IF k \in DOMAIN d THEN d[k] ELSE default

Put(d, k, v) == [x \in DOMAIN d \cup {k} |-> IF x = k THEN v ELSE d[x]]

Update(d, e) == [x \in DOMAIN d \cup DOMAIN e |-> IF x \in DOMAIN e THEN e[x] ELSE d[x]]

SeqsUpTo(S, n) == UNION {[1..k -> S] : k \in 0..n}

(***************************************************************************)
(* str(int), int(str) and the :03d format, on decimal digit sequences.     *)
(***************************************************************************)
RECURSIVE Str(_)
Str(n) == IF n < 10 THEN <<n>> ELSE Append(Str(n \div 10), n % 10)

RECURSIVE ParseInt(_)
ParseInt(s) == IF Len(s) = 1 THEN s[1] ELSE ParseInt(SubSeq(s, 1, Len(s) - 1)) * 10 + s[Len(s)]

Fmt03(n) ==
    LET s == Str(n)
        pad == 3 - Len(s)
    IN  IF pad <= 0 THEN s
        ELSE [i \in 1..3 |-> IF i <= pad THEN 0 ELSE s[i - pad]]

PartialIndexFile_sameName(n) == <<"partial_index", Fmt03(0)>>

PartialIndexFile(n) == <<"partial_index", Fmt03(n)>>
PartialMappingFile(n) == <<"partial_mapping", Fmt03(n)>>

(***************************************************************************)
(* Tokenizer and stemmer.  A text is a sequence of words; a word is either *)
(* an alphanumeric run or a run of other characters.                       *)
(***************************************************************************)
Words == {"Cats", "dog", "!"}

IsAlnumRun(w) == w # "!"

Lower(w) ==
    CASE w = "Cats" -> "cats"
      [] w = "Exit" -> "exit"
      [] w = "Q" -> "q"
      [] OTHER -> w

RECURSIVE tokenize(_)
tokenize(text) ==
    IF text = <<>> THEN <<>>
    ELSE IF IsAlnumRun(Head(text))
         THEN <<Lower(Head(text))>> \o tokenize(Tail(text))
         ELSE tokenize(Tail(text))

stem(token) == IF token = "cats" THEN "cat" ELSE token

stem_tokens(tokens) == [i \in DOMAIN tokens |-> stem(tokens[i])]

Terms == {stem(Lower(w)) : w \in {x \in Words : IsAlnumRun(x)}}

(***************************************************************************)
(* Corpus records.                                                         *)
(***************************************************************************)
RawUrls == { <<>>, <<"x">>, <<"y">>, <<"x", "#", "s">>, <<"#", "x">> }

\* content: the HTML string, by whether it is the empty string, whether
\* HTMLParser.parse raises on it, and the two texts parse extracts from it.
EmptyContent ==
    [is_empty |-> TRUE, raises |-> FALSE, normal_text |-> <<>>, important_text |-> <<>>]

BadHtml ==
    [is_empty |-> FALSE, raises |-> TRUE, normal_text |-> <<>>, important_text |-> <<>>]

Html(normal_text, important_text) ==
    [is_empty |-> FALSE, raises |-> FALSE,
     normal_text |-> normal_text, important_text |-> important_text]

\* A record whose file is not parseable JSON has parses = FALSE.
Malformed == [parses |-> FALSE, url |-> <<>>, content |-> EmptyContent]

\* The corpus of Spec: every raw url, with a few contents (none, one the parser
\* rejects, one without any token, two with tokens).
Contents ==
    {EmptyContent, BadHtml, Html(<<"!">>, <<>>), Html(<<"Cats">>, <<>>),
     Html(<<"dog">>, <<"dog">>)}

Records == {Malformed} \cup [parses : {TRUE}, url : RawUrls, content : Contents]

\* The corpus of SpecTokens: two urls, with every content up to the word bounds.
TokenContents ==
    [is_empty : {FALSE}, raises : {FALSE},
     normal_text : SeqsUpTo(Words, MaxWords),
     important_text : SeqsUpTo(Words, MaxImportantWords)]

TokenRecords == [parses : {TRUE}, url : {<<"x">>, <<"y">>}, content : TokenContents]

None == [ok |-> FALSE, url |-> <<>>, normal_tokens |-> <<>>, important_tokens |-> <<>>]

SplitAtHash_keep(url) == url

RECURSIVE SplitAtHash(_)
SplitAtHash(url) ==
    IF url = <<>> \/ Head(url) = "#" THEN <<>>
    ELSE <<Head(url)>> \o SplitAtHash(Tail(url))

process_json_file(rec) ==
    IF ~rec.parses THEN None
    ELSE IF rec.url = <<>> \/ rec.content.is_empty THEN None
    ELSE IF rec.content.raises THEN None
    ELSE [ok |-> TRUE,
          url |-> IF "#" \in Range(rec.url) THEN SplitAtHash(rec.url) ELSE rec.url,
          normal_tokens |-> stem_tokens(tokenize(rec.content.normal_text)),
          important_tokens |-> stem_tokens(tokenize(rec.content.important_text))]

(***************************************************************************)
(* State.                                                                  *)
(***************************************************************************)
VARIABLES
    pc,                  \* "sizing", "building", "done", "reported", "aborted"
    total_files,         \* __main__: the number of JSON files under data_dir
    max_docs_in_memory,  \* DiskBasedIndexer.max_docs_in_memory
    index,               \* DiskBasedIndexer.index: term -> doc_id -> posting
    doc_ids,             \* url -> doc_id
    doc_id_to_url,       \* doc_id -> url
    next_doc_id,
    docs_in_memory,
    partial_index_count,
    partial_dir,         \* files of output_dir/partial_indexes: name -> content
    partial_dir_exists,
    final_index_file,    \* output_dir/inverted_index.json
    doc_mapping_file,    \* output_dir/doc_mapping.json
    files_processed,     \* position of build_index_disk's loop
    stats,               \* what build_index_disk returns
    lastCall,            \* history: the last operation and its arguments
    corpus,              \* history: the records read that have content, by raw url and
                         \* whether processing them raised
    segments_written,    \* history: contents of the segment files written
    recorded,            \* history: the (term, doc_id) pairs add_document calls set
    calls,               \* history: the arguments of the add_document calls, in order
    held,                \* the mapping _get_postings last returned, as its caller holds it
    doc_mappings,        \* M3SearchEngine.doc_mappings
    total_docs,          \* M3SearchEngine.total_docs
    df_cache,            \* M3SearchEngine.df_cache: term -> df
    postings_cache,      \* M3SearchEngine.postings_cache, in insertion order
    results,             \* what the last search returned
    lastQuery,           \* history: the last search's arguments and candidates
    index_file_keys,     \* the top-level keys of the inverted_index.json the engine
                         \* reads, in the order of the file's text
    optimized_cache,     \* OptimizedSearchEngine.postings_cache, in insertion order
    lastRead,            \* history: the last posting lookup and what each reader gave
    stdin,               \* the lines the console has still to read
    stderr_lines         \* parity of the number of lines written to stderr

history == <<segments_written, recorded, calls, held>>
builder == <<total_files, max_docs_in_memory, index, doc_ids, doc_id_to_url,
             next_doc_id, docs_in_memory, partial_index_count>>
disk == <<partial_dir, partial_dir_exists, final_index_file, doc_mapping_file>>
reader == <<index_file_keys, optimized_cache, lastRead>>
console == <<stdin, stderr_lines>>
engine == <<doc_mappings, total_docs, df_cache, postings_cache, results, lastQuery,
            reader, console>>
vars == <<pc, builder, disk, files_processed, stats, lastCall, corpus,
          history, engine>>

\* A file: absent, cut short by a failed write, or whole with its JSON data.
NoFile == [state |-> "absent", data |-> <<>>]
Truncated == [state |-> "truncated", data |-> <<>>]
Whole(data) == [state |-> "whole", data |-> data]

NoStats == [num_documents |-> 0, num_unique_tokens |-> 0, partial_indexes |-> 0,
            warning |-> FALSE]

(***************************************************************************)
(* DiskBasedIndexer.add_document: the posting of one token.                *)
(***************************************************************************)
RECURSIVE CountTokens(_)
CountTokens(tokens) ==
    IF Len(tokens) = 0 THEN EmptyDict
    ELSE LET rest == CountTokens(SubSeq(tokens, 1, Len(tokens) - 1))
             token == tokens[Len(tokens)]
         IN  Put(rest, token, Get(rest, token, 0) + 1)

NewPosting_bodyOnly(token, tokens, important_tokens) ==
    [tf |-> Get(CountTokens(tokens), token, 0),
     is_important |-> token \in Range(important_tokens)]

NewPosting(token, tokens, important_tokens) ==
    LET important_set == Range(important_tokens)
        tf_normal == Get(CountTokens(tokens), token, 0)
        tf_important == Get(CountTokens(important_tokens), token, 0)
    IN  [tf |-> tf_normal + tf_important,
         is_important |-> token \in important_set \/ tf_important > 0]

AddPostings(idx, doc_id, tokens, important_tokens) ==
    LET all_tokens == Range(tokens) \cup Range(important_tokens)
    IN  [t \in DOMAIN idx \cup all_tokens |->
            IF t \in all_tokens
            THEN Put(Get(idx, t, EmptyDict), doc_id,
                     NewPosting(t, tokens, important_tokens))
            ELSE idx[t]]

(***************************************************************************)
(* JSON form of an index: doc-id keys become str(doc_id).                  *)
(***************************************************************************)
StrKeys(d) ==
    [k \in {Str(x) : x \in DOMAIN d} |-> d[CHOOSE x \in DOMAIN d : Str(x) = k]]

IntKeys(d) ==
    [x \in {ParseInt(k) : k \in DOMAIN d} |-> d[CHOOSE k \in DOMAIN d : ParseInt(k) = x]]

IndexData(idx) == [t \in DOMAIN idx |-> StrKeys(idx[t])]

(***************************************************************************)
(* DiskBasedIndexer._offload_to_disk.  io names the I/O call that fails,   *)
(* "ok" when none does.  The result is the indexer and directory after the *)
(* call; error tells whether the call raised.                              *)
(***************************************************************************)
SpillIO == {"spill_index_open", "spill_index_write",
            "spill_mapping_open", "spill_mapping_write"}

OffloadCleared_keep(idx) == idx

OffloadCleared(idx) == EmptyDict

OffloadCounter(dim) == 0

Offload(idx, dim, cnt, dir, ids, id2url, io) ==
    LET same == [index |-> idx, docs_in_memory |-> dim,
                 partial_index_count |-> cnt, partial_dir |-> dir,
                 error |-> FALSE]
        index_data == IndexData(idx)
        mapping_data == [url_to_id |-> ids, id_to_url |-> StrKeys(id2url)]
        withIndex == Put(dir, PartialIndexFile(cnt), Whole(index_data))
    IN  IF DOMAIN idx = {} THEN same
        ELSE CASE io = "spill_index_open" ->
                    [same EXCEPT !.error = TRUE]
               [] io = "spill_index_write" ->
                    [same EXCEPT !.error = TRUE,
                        !.partial_dir = Put(dir, PartialIndexFile(cnt), Truncated)]
               [] io = "spill_mapping_open" ->
                    [same EXCEPT !.error = TRUE, !.partial_dir = withIndex]
               [] io = "spill_mapping_write" ->
                    [same EXCEPT !.error = TRUE,
                        !.partial_dir = Put(withIndex, PartialMappingFile(cnt), Truncated)]
               [] OTHER ->
                    [index |-> OffloadCleared(idx),
                     docs_in_memory |-> OffloadCounter(dim),
                     partial_index_count |-> cnt + 1,
                     partial_dir |-> Put(withIndex, PartialMappingFile(cnt), Whole(mapping_data)),
                     error |-> FALSE]

(***************************************************************************)
(* DiskBasedIndexer._merge_partial_indexes.                                *)
(***************************************************************************)
DefaultPosting == [tf |-> 0, is_important |-> FALSE]

MergePosting_overwrite(existing, posting_data) ==
    [tf |-> posting_data.tf,
     is_important |-> existing.is_important \/ posting_data.is_important]

MergePosting(existing, posting_data) ==
    [tf |-> existing.tf + posting_data.tf,
     is_important |-> existing.is_important \/ posting_data.is_important]

MergeSegment_replaceTerm(merged_index, partial_index) ==
    [t \in DOMAIN merged_index \cup DOMAIN partial_index |->
        IF t \in DOMAIN partial_index THEN IntKeys(partial_index[t])
        ELSE merged_index[t]]

MergeSegment(merged_index, partial_index) ==
    [t \in DOMAIN merged_index \cup DOMAIN partial_index |->
        IF t \notin DOMAIN partial_index THEN merged_index[t]
        ELSE LET old == Get(merged_index, t, EmptyDict)
                 new == IntKeys(partial_index[t])
             IN  [d \in DOMAIN old \cup DOMAIN new |->
                    IF d \in DOMAIN new
                    THEN MergePosting(Get(old, d, DefaultPosting), new[d])
                    ELSE old[d]]]

RECURSIVE MergeSegments(_, _, _, _)
MergeSegments(merged_index, i, cnt, dir) ==
    IF i >= cnt THEN merged_index
    ELSE MergeSegments(MergeSegment(merged_index, dir[PartialIndexFile(i)].data),
                       i + 1, cnt, dir)

(***************************************************************************)
(* DiskBasedIndexer._save_doc_mappings: the mapping written to             *)
(* doc_mapping.json.                                                       *)
(***************************************************************************)
RECURSIVE CollectMappings(_, _, _, _)
CollectMappings(acc, i, cnt, dir) ==
    IF i >= cnt THEN acc
    ELSE LET f == PartialMappingFile(i)
             next == IF f \in DOMAIN dir
                     THEN [all_doc_ids |-> Update(acc.all_doc_ids, dir[f].data.url_to_id),
                           all_doc_id_to_url |->
                               Update(acc.all_doc_id_to_url, IntKeys(dir[f].data.id_to_url))]
                     ELSE acc
         IN  CollectMappings(next, i + 1, cnt, dir)

DocMappings_snapshotsOnly(cnt, dir, ids, id2url) ==
    LET collected == CollectMappings([all_doc_ids |-> EmptyDict,
                                      all_doc_id_to_url |-> EmptyDict], 0, cnt, dir)
    IN  [url_to_id |-> collected.all_doc_ids,
         id_to_url |-> StrKeys(collected.all_doc_id_to_url)]

DocMappings(cnt, dir, ids, id2url) ==
    LET collected == CollectMappings([all_doc_ids |-> EmptyDict,
                                      all_doc_id_to_url |-> EmptyDict], 0, cnt, dir)
    IN  [url_to_id |-> Update(collected.all_doc_ids, ids),
         id_to_url |-> StrKeys(Update(collected.all_doc_id_to_url, id2url))]

(***************************************************************************)
(* Initial state: a DiskBasedIndexer just constructed over an empty output *)
(* directory.                                                              *)
(***************************************************************************)
NoMappings == [url_to_id |-> EmptyDict, id_to_url |-> EmptyDict]

NoQuery == [query |-> <<>>, top_k |-> 0, query_terms |-> <<>>, failing |-> {},
            candidate_docs |-> {}, matching_terms |-> EmptyDict, score |-> EmptyDict]

NoCall == [op |-> "none", url |-> <<>>, tokens |-> <<>>, important_tokens |-> <<>>,
           doc_id |-> 0, io |-> "ok"]

NoHeld == [term |-> "", postings |-> EmptyDict, shared |-> FALSE]

NoRead == [engine |-> "none", term |-> "", postings |-> EmptyDict, resident |-> EmptyDict,
           fails |-> FALSE]

Init ==
    /\ pc = "building"
    /\ max_docs_in_memory \in 1..MaxThreshold
    /\ total_files = 0
    /\ index = EmptyDict
    /\ doc_ids = EmptyDict
    /\ doc_id_to_url = EmptyDict
    /\ next_doc_id = 0
    /\ docs_in_memory = 0
    /\ partial_index_count = 0
    /\ partial_dir = EmptyDict
    /\ partial_dir_exists = TRUE
    /\ final_index_file = NoFile
    /\ doc_mapping_file = NoFile
    /\ files_processed = 0
    /\ stats = NoStats
    /\ lastCall = NoCall
    /\ corpus = {}
    /\ segments_written = <<>>
    /\ recorded = {}
    /\ calls = <<>>
    /\ held = NoHeld
    /\ doc_mappings = NoMappings
    /\ total_docs = 0
    /\ df_cache = EmptyDict
    /\ postings_cache = <<>>
    /\ results = <<>>
    /\ lastQuery = NoQuery
    /\ index_file_keys = <<>>
    /\ optimized_cache = <<>>
    /\ lastRead = NoRead
    /\ stdin = <<>>
    /\ stderr_lines = 0

(***************************************************************************)
(* DiskBasedIndexer.add_document, with the spill it may trigger.           *)
(***************************************************************************)
AssignDocId(ids, nxt, url) == IF url \in DOMAIN ids THEN ids[url] ELSE nxt

NextDocIdAfter_noIncrement(nxt, isNew) == nxt

NextDocIdAfter(nxt, isNew) == IF isNew THEN nxt + 1 ELSE nxt

AddDocument(url, tokens, important_tokens, io) ==
    LET isNew == url \notin DOMAIN doc_ids
        doc_id == AssignDocId(doc_ids, next_doc_id, url)
        ids == IF isNew THEN Put(doc_ids, url, doc_id) ELSE doc_ids
        id2url == IF isNew THEN Put(doc_id_to_url, doc_id, url) ELSE doc_id_to_url
        idx == AddPostings(index, doc_id, tokens, important_tokens)
        dim == docs_in_memory + 1
        spill == dim >= max_docs_in_memory
        r == IF spill
             THEN Offload(idx, dim, partial_index_count, partial_dir, ids, id2url, io)
             ELSE [index |-> idx, docs_in_memory |-> dim,
                   partial_index_count |-> partial_index_count,
                   partial_dir |-> partial_dir, error |-> FALSE]
    IN  /\ io \in {"ok"} \cup (IF spill /\ DOMAIN idx # {} THEN SpillIO ELSE {})
        /\ doc_ids' = ids
        /\ doc_id_to_url' = id2url
        /\ next_doc_id' = NextDocIdAfter(next_doc_id, isNew)
        /\ index' = r.index
        /\ docs_in_memory' = r.docs_in_memory
        /\ partial_index_count' = r.partial_index_count
        /\ partial_dir' = r.partial_dir
        /\ segments_written' =
              IF r.partial_index_count > partial_index_count
              THEN Append(segments_written,
                          r.partial_dir[PartialIndexFile(partial_index_count)].data)
              ELSE segments_written
        /\ recorded' = recorded \cup
              {<<token, doc_id>> : token \in Range(tokens) \cup Range(important_tokens)}
        /\ calls' = Append(calls, [url |-> url, tokens |-> tokens,
                                   important_tokens |-> important_tokens])
        /\ pc' = IF r.error THEN "aborted" ELSE pc
        /\ lastCall' = [op |-> "add_document", url |-> url, tokens |-> tokens,
                        important_tokens |-> important_tokens, doc_id |-> doc_id,
                        io |-> io]
        /\ UNCHANGED <<total_files, max_docs_in_memory, partial_dir_exists,
                       final_index_file, doc_mapping_file, stats, held, engine>>

(***************************************************************************)
(* One iteration of build_index_disk's loop over the corpus files.         *)
(***************************************************************************)
ProcessFile(rec, io) ==
    /\ pc = "building"
    /\ files_processed' = files_processed + 1
    /\ corpus' = IF rec.parses /\ ~rec.content.is_empty
                 THEN corpus \cup {[url |-> rec.url, raises |-> rec.content.raises]}
                 ELSE corpus
    /\ LET result == process_json_file(rec)
       IN  IF ~result.ok
           THEN /\ io = "ok"
                /\ lastCall' = [NoCall EXCEPT !.op = "skip"]
                /\ UNCHANGED <<pc, builder, disk, stats, history, engine>>
           ELSE AddDocument(result.url, result.normal_tokens,
                            result.important_tokens, io)

(***************************************************************************)
(* DiskBasedIndexer.finalize.                                              *)
(***************************************************************************)
MergeIO == {"read_segment", "final_open", "final_write",
            "read_mapping", "mapping_open", "mapping_write"}

\* shutil.rmtree(partial_index_dir), reached only when nothing before it raised.
DirAfterFinalize_finally(dir, failed) == EmptyDict

DirAfterFinalize_keep(dir, failed) == dir

DirAfterFinalize(dir, failed) == IF failed THEN dir ELSE EmptyDict

Finalize(io) ==
    LET flush == DOMAIN index # {}
        s == IF flush
             THEN Offload(index, docs_in_memory, partial_index_count, partial_dir,
                          doc_ids, doc_id_to_url, io)
             ELSE [index |-> index, docs_in_memory |-> docs_in_memory,
                   partial_index_count |-> partial_index_count,
                   partial_dir |-> partial_dir, error |-> FALSE]
        cnt == s.partial_index_count
        merged == IF cnt = 0 THEN s.index
                  ELSE MergeSegments(EmptyDict, 0, cnt, s.partial_dir)
        readFails == io = "read_segment"
        finalFails == io \in {"final_open", "final_write"}
        mappingFails == io \in {"read_mapping", "mapping_open", "mapping_write"}
        failed == s.error \/ io \in MergeIO
    IN  /\ pc = "building"
        /\ io \in {"ok"} \cup (IF flush THEN SpillIO ELSE {})
                  \cup {"final_open", "final_write", "mapping_open", "mapping_write"}
                  \cup (IF cnt > 0 THEN {"read_segment", "read_mapping"} ELSE {})
        /\ index' = s.index
        /\ docs_in_memory' = s.docs_in_memory
        /\ partial_index_count' = cnt
        /\ segments_written' =
              IF cnt > partial_index_count
              THEN Append(segments_written,
                          s.partial_dir[PartialIndexFile(partial_index_count)].data)
              ELSE segments_written
        /\ final_index_file' =
              IF s.error \/ readFails \/ io = "final_open" THEN final_index_file
              ELSE IF io = "final_write" THEN Truncated
              ELSE Whole(IndexData(merged))
        /\ doc_mapping_file' =
              IF s.error \/ readFails \/ finalFails \/ io \in {"read_mapping", "mapping_open"}
              THEN doc_mapping_file
              ELSE IF io = "mapping_write" THEN Truncated
              ELSE Whole(DocMappings(cnt, s.partial_dir, doc_ids, doc_id_to_url))
        /\ partial_dir' = DirAfterFinalize(s.partial_dir, failed)
        /\ partial_dir_exists' = failed
        /\ pc' = IF failed THEN "aborted" ELSE "done"
        /\ lastCall' = [NoCall EXCEPT !.op = "finalize", !.io = io]
        /\ UNCHANGED <<total_files, max_docs_in_memory, doc_ids, doc_id_to_url,
                       next_doc_id, files_processed, stats, corpus, recorded, calls, held,
                       engine>>

(***************************************************************************)
(* build_index_disk after finalize: the statistics and the warning.        *)
(***************************************************************************)
get_num_documents ==
    IF partial_index_count = 0 THEN Cardinality(DOMAIN doc_ids) ELSE next_doc_id

get_num_unique_tokens ==
    IF final_index_file.state = "absent" THEN Cardinality(DOMAIN index)
    ELSE Cardinality(DOMAIN final_index_file.data)

CalculateStatistics ==
    /\ pc = "done"
    /\ pc' = "reported"
    /\ stats' = [num_documents |-> get_num_documents,
                 num_unique_tokens |-> get_num_unique_tokens,
                 partial_indexes |-> partial_index_count,
                 warning |-> partial_index_count < 3]
    /\ lastCall' = [NoCall EXCEPT !.op = "statistics"]
    /\ UNCHANGED <<builder, disk, files_processed, corpus, history, engine>>

\* build_index_disk over a corpus of at most limit files drawn from recs.
Build(recs, limit) ==
    \/ \E rec \in recs, io \in {"ok"} \cup SpillIO :
          files_processed < limit /\ ProcessFile(rec, io)
    \/ \E io \in {"ok"} \cup SpillIO \cup MergeIO : Finalize(io)
    \/ CalculateStatistics

Next == Build(Records, MaxFiles)

Spec == Init /\ [][Next]_vars

NextTokens == Build(TokenRecords, MaxTokenFiles)

SpecTokens == Init /\ [][NextTokens]_vars

(***************************************************************************)
(* build_index_disk.py run as a script: max_docs_in_memory is computed     *)
(* from the number of JSON files found under data_dir.                     *)
(***************************************************************************)
Max(a, b) == IF a >= b THEN a ELSE b

CeilDiv(a, b) == (a + b - 1) \div b

\* __main__, lines 168-176.
MaxDocsFor(n) ==
    IF n > 20000 THEN Max(5000, n \div 10)
    ELSE IF n > 10000 THEN Max(3000, n \div 8)
    ELSE IF n > 5000 THEN Max(1500, n \div 4)
    ELSE Max(300, n \div 4)

\* Corpus sizes: every small one, and sizes around the edges of each branch.
MaxSmallCorpus == 40

CorpusEdges == {300, 1200, 5000, 6000, 10000, 12000, 20000, 24000, 40000, 50000, 80000}

CorpusSizes ==
    0..MaxSmallCorpus \cup UNION {{n - 1, n, n + 1, n + 3} : n \in CorpusEdges}

InitSizing ==
    /\ pc = "sizing"
    /\ total_files \in CorpusSizes
    /\ max_docs_in_memory = 10000
    /\ index = EmptyDict
    /\ doc_ids = EmptyDict
    /\ doc_id_to_url = EmptyDict
    /\ next_doc_id = 0
    /\ docs_in_memory = 0
    /\ partial_index_count = 0
    /\ partial_dir = EmptyDict
    /\ partial_dir_exists = FALSE
    /\ final_index_file = NoFile
    /\ doc_mapping_file = NoFile
    /\ files_processed = 0
    /\ stats = NoStats
    /\ lastCall = NoCall
    /\ corpus = {}
    /\ segments_written = <<>>
    /\ recorded = {}
    /\ calls = <<>>
    /\ held = NoHeld
    /\ doc_mappings = NoMappings
    /\ total_docs = 0
    /\ df_cache = EmptyDict
    /\ postings_cache = <<>>
    /\ results = <<>>
    /\ lastQuery = NoQuery
    /\ index_file_keys = <<>>
    /\ optimized_cache = <<>>
    /\ lastRead = NoRead
    /\ stdin = <<>>
    /\ stderr_lines = 0

\* __main__ up to the call of build_index_disk(data_dir, max_docs_in_memory=max_docs).
SizeThreshold ==
    /\ pc = "sizing"
    /\ max_docs_in_memory' = MaxDocsFor(total_files)
    /\ pc' = "building"
    /\ partial_dir_exists' = TRUE
    /\ UNCHANGED <<total_files, index, doc_ids, doc_id_to_url, next_doc_id,
                   docs_in_memory, partial_index_count, partial_dir, final_index_file,
                   doc_mapping_file, files_processed, stats, lastCall, corpus,
                   history, engine>>

NextSizing == SizeThreshold

SpecSizing == InitSizing /\ [][NextSizing]_vars

(***************************************************************************)
(* M3SearchEngine.  Scores are fixed-point, in thousandths: logarithms and *)
(* square roots are tabulated in thousandths, products and quotients are   *)
(* cut to thousandths.                                                     *)
(***************************************************************************)
CacheMaxSize == 500

DefaultTopK == 10

LnTable == <<0, 693, 1099, 1386, 1609, 1792, 1946, 2079, 2197, 2303>>
Ln1000(n) == LnTable[n]

SqrtTable == <<1000, 1414, 1732, 2000, 2236>>
Sqrt1000(n) == SqrtTable[n]

\* M3SearchEngine._process_query
RECURSIVE RemoveDuplicates(_, _)
RemoveDuplicates(tokens, seen) ==
    IF tokens = <<>> THEN <<>>
    ELSE IF Head(tokens) \in seen THEN RemoveDuplicates(Tail(tokens), seen)
    ELSE <<Head(tokens)>> \o RemoveDuplicates(Tail(tokens), seen \cup {Head(tokens)})

process_query(query) == RemoveDuplicates(stem_tokens(tokenize(query)), {})

CacheTerms(cache) == {cache[i].term : i \in DOMAIN cache}

CacheLookup(cache, term) == cache[CHOOSE i \in DOMAIN cache : cache[i].term = term].postings

(***************************************************************************)
(* The text of inverted_index.json as json.dump writes it:                 *)
(*   {"term": {"doc": {"tf": n, "is_important": b}, ...}, ...}             *)
(* A file handed to a reader is [state, data, keys]: data the decoded      *)
(* object, keys its top-level keys in the order of the text.               *)
(***************************************************************************)
RobustLimit == 200000

\* str(doc_id) as a term would spell it.
KeyText(k) == ToString(ParseInt(k))

\* len of the text of one posting, e.g. {"tf": 1, "is_important": false}
PostingLength(posting) ==
    7 + Len(Str(posting.tf)) + 18 + (IF posting.is_important THEN 4 ELSE 5) + 1

RECURSIVE EntriesLength(_, _)
EntriesLength(object, keys) ==
    IF keys = {} THEN 0
    ELSE LET k == CHOOSE x \in keys : TRUE
         IN  (Len(k) + 2) + 2 + PostingLength(object[k])
             + (IF keys = {k} THEN 0 ELSE 2) + EntriesLength(object, keys \ {k})

\* len of the text of one term's object, braces included.
ObjectLength(object) == 2 + EntriesLength(object, DOMAIN object)

NotExtracted == [found |-> FALSE, doc_keys |-> FALSE, data |-> EmptyDict]

\* M3SearchEngine._extract_term_from_json / _extract_term_robust.  re.search
\* stops at the first "term": { of the text, which is either the top-level key
\* term or, for an all-digit term, the key of a document inside the object of
\* an earlier key.  The regex group ends at the first closing brace: the text
\* of a posting, or of an empty object, decodes as it stands; that of a
\* non-empty object does not, and brace matching takes over, which scans
\* RobustLimit characters.  doc_keys tells whether the keys of data are
\* doc-ids; those of a posting are "tf" and "is_important".
ExtractTerm(term, file) ==
    LET content == file.data
        keys == file.keys
        Inner(i) == {d \in DOMAIN content[keys[i]] : KeyText(d) = term}
        hits == {i \in DOMAIN keys : keys[i] = term \/ Inner(i) # {}}
    IN  IF hits = {} THEN NotExtracted
        ELSE LET i == CHOOSE x \in hits : \A y \in hits : x <= y
                 object == content[keys[i]]
             IN  IF keys[i] = term
                 THEN IF DOMAIN object = {}
                      THEN [found |-> TRUE, doc_keys |-> TRUE, data |-> EmptyDict]
                      ELSE IF ObjectLength(object) > RobustLimit THEN NotExtracted
                      ELSE [found |-> TRUE, doc_keys |-> TRUE, data |-> object]
                 ELSE [found |-> TRUE, doc_keys |-> FALSE,
                       data |-> object[CHOOSE d \in Inner(i) : TRUE]]

GetPostingsFromDisk_noValueError(term, cache, file, fails) ==
    IF term \in CacheTerms(cache)
    THEN [postings |-> CacheLookup(cache, term), cache |-> cache]
    ELSE IF file.state = "absent" \/ fails
    THEN [postings |-> EmptyDict, cache |-> cache]
    ELSE LET term_data == ExtractTerm(term, file)
         IN  IF term_data.found /\ DOMAIN term_data.data # {}
             THEN IF ~term_data.doc_keys
                  THEN [postings |-> (0 :> term_data.data), cache |-> cache]
                  ELSE LET postings == IntKeys(term_data.data)
                           room == IF Len(cache) >= CacheMaxSize THEN Tail(cache)
                                   ELSE cache
                       IN  [postings |-> postings,
                            cache |-> Append(room, [term |-> term, postings |-> postings])]
             ELSE [postings |-> EmptyDict, cache |-> cache]

GetPostingsFromDisk_cacheFailure(term, cache, file, fails) ==
    IF term \in CacheTerms(cache)
    THEN [postings |-> CacheLookup(cache, term), cache |-> cache]
    ELSE IF file.state = "absent"
    THEN [postings |-> EmptyDict, cache |-> cache]
    ELSE IF fails
    THEN [postings |-> EmptyDict,
          cache |-> Append(cache, [term |-> term, postings |-> EmptyDict])]
    ELSE GetPostingsFromDisk_noValueError(term, cache, file, fails)

GetPostingsFromDisk_refreshOnHit(term, cache, file, fails) ==
    IF term \in CacheTerms(cache)
    THEN LET postings == CacheLookup(cache, term)
         IN  [postings |-> postings,
              cache |-> Append(SelectSeq(cache, LAMBDA e : e.term # term),
                               [term |-> term, postings |-> postings])]
    ELSE GetPostingsFromDisk_noValueError(term, cache, file, fails)

\* M3SearchEngine._get_postings_from_disk; fails tells whether reading the
\* file raises.  Returns the postings and the cache after the call.
GetPostingsFromDisk(term, cache, file, fails) ==
    IF term \in CacheTerms(cache)
    THEN [postings |-> CacheLookup(cache, term), cache |-> cache]
    ELSE IF file.state = "absent" \/ fails
    THEN [postings |-> EmptyDict, cache |-> cache]
    ELSE LET term_data == ExtractTerm(term, file)
         IN  IF term_data.found /\ DOMAIN term_data.data # {}
             THEN IF ~term_data.doc_keys
                  THEN \* int("tf") raises ValueError, caught at line 155
                       [postings |-> EmptyDict, cache |-> cache]
                  ELSE LET postings == IntKeys(term_data.data)
                           room == IF Len(cache) >= CacheMaxSize THEN Tail(cache)
                                   ELSE cache
                       IN  [postings |-> postings,
                            cache |-> Append(room, [term |-> term, postings |-> postings])]
             ELSE [postings |-> EmptyDict, cache |-> cache]

\* search, lines 220-225: the postings of each query term, in query order.
RECURSIVE FetchPostings(_, _, _, _, _)
FetchPostings(query_terms, term_postings, cache, file, failing) ==
    IF query_terms = <<>> THEN [term_postings |-> term_postings, cache |-> cache]
    ELSE LET term == Head(query_terms)
             r == GetPostingsFromDisk(term, cache, file, term \in failing)
             KeepTerm(tp) == IF DOMAIN r.postings # {} THEN Put(tp, term, r.postings) ELSE tp
         IN  FetchPostings(Tail(query_terms), KeepTerm(term_postings), r.cache, file, failing)

\* search, lines 232-240: the documents of every fetched posting list.
CandidateDocs(term_postings) ==
    {d \in UNION {DOMAIN term_postings[t] : t \in DOMAIN term_postings} :
        \A t \in DOMAIN term_postings : d \in DOMAIN term_postings[t]}

GetDocumentFrequency_memoZero(term, dfs, cache, file, fails) ==
    IF term \in DOMAIN dfs THEN [df |-> dfs[term], df_cache |-> dfs, cache |-> cache]
    ELSE LET r == GetPostingsFromDisk(term, cache, file, fails)
         IN  [df |-> Cardinality(DOMAIN r.postings), df_cache |-> Put(dfs, term, 0),
              cache |-> r.cache]

GetDocumentFrequency_plusOne(term, dfs, cache, file, fails) ==
    IF term \in DOMAIN dfs THEN [df |-> dfs[term], df_cache |-> dfs, cache |-> cache]
    ELSE LET r == GetPostingsFromDisk(term, cache, file, fails)
             df == Cardinality(DOMAIN r.postings) + 1
         IN  [df |-> df, df_cache |-> Put(dfs, term, df), cache |-> r.cache]

\* M3SearchEngine._get_document_frequency; returns df and both caches.
GetDocumentFrequency(term, dfs, cache, file, fails) ==
    IF term \in DOMAIN dfs THEN [df |-> dfs[term], df_cache |-> dfs, cache |-> cache]
    ELSE LET r == GetPostingsFromDisk(term, cache, file, fails)
             df == Cardinality(DOMAIN r.postings)
         IN  [df |-> df, df_cache |-> Put(dfs, term, df), cache |-> r.cache]

\* search, line 249: the df of each fetched query term, in query order.
RECURSIVE FetchDfs(_, _, _, _, _, _, _)
FetchDfs(query_terms, fetched, term_dfs, dfs, cache, file, failing) ==
    IF query_terms = <<>> THEN [term_dfs |-> term_dfs, df_cache |-> dfs, cache |-> cache]
    ELSE LET term == Head(query_terms)
         IN  IF term \in fetched
             THEN LET r == GetDocumentFrequency(term, dfs, cache, file, term \in failing)
                  IN  FetchDfs(Tail(query_terms), fetched, Put(term_dfs, term, r.df),
                               r.df_cache, r.cache, file, failing)
             ELSE FetchDfs(Tail(query_terms), fetched, term_dfs, dfs, cache, file, failing)

\* M3SearchEngine._calculate_enhanced_tf_idf, in thousandths.
calculate_enhanced_tf_idf(tf, df, n, is_important) ==
    IF df = 0 \/ n = 0 THEN 0
    ELSE LET tf_score == IF tf > 0 THEN 1000 + Ln1000(tf) ELSE 0
             idf_score == Ln1000(n + 1) - Ln1000(df + 1) + 1000
             base_score == (tf_score * idf_score) \div 1000
         IN  IF is_important THEN base_score * 2 ELSE base_score

MatchingTerms(doc_id, query_terms, term_postings) ==
    {i \in DOMAIN query_terms :
        /\ query_terms[i] \in DOMAIN term_postings
        /\ doc_id \in DOMAIN term_postings[query_terms[i]]}

RECURSIVE SumScores(_, _, _, _, _, _)
SumScores(positions, doc_id, query_terms, term_postings, term_dfs, n) ==
    IF positions = {} THEN 0
    ELSE LET i == CHOOSE x \in positions : TRUE
             posting == term_postings[query_terms[i]][doc_id]
         IN  calculate_enhanced_tf_idf(posting.tf, Get(term_dfs, query_terms[i], 0), n,
                                       posting.is_important)
             + SumScores(positions \ {i}, doc_id, query_terms, term_postings, term_dfs, n)

\* search, lines 251-275: the score of one candidate.
DocScore(doc_id, query_terms, term_postings, term_dfs, n) ==
    LET matching == MatchingTerms(doc_id, query_terms, term_postings)
        sum == SumScores(matching, doc_id, query_terms, term_postings, term_dfs, n)
        boosted == IF Cardinality(matching) = Len(query_terms)
                   THEN (sum * 115) \div 100 ELSE sum
    IN  IF Len(query_terms) > 1
        THEN (boosted * 1000) \div Sqrt1000(Len(query_terms))
        ELSE boosted

\* sorted(..., key=score, reverse=True): stable, so documents of equal score
\* stay in the order in which the candidate set was enumerated.
RECURSIVE InsertByScore_ascending(_, _, _)
InsertByScore_ascending(sorted, item, score) ==
    IF sorted = <<>> THEN <<item>>
    ELSE IF score[Head(sorted)] <= score[item]
         THEN <<Head(sorted)>> \o InsertByScore_ascending(Tail(sorted), item, score)
         ELSE <<item>> \o sorted

RECURSIVE InsertByScore(_, _, _)
InsertByScore(sorted, item, score) ==
    IF sorted = <<>> THEN <<item>>
    ELSE IF score[Head(sorted)] >= score[item]
         THEN <<Head(sorted)>> \o InsertByScore(Tail(sorted), item, score)
         ELSE <<item>> \o sorted

RECURSIVE SortByScore(_, _)
SortByScore(enumeration, score) ==
    IF enumeration = <<>> THEN <<>>
    ELSE InsertByScore(SortByScore(SubSeq(enumeration, 1, Len(enumeration) - 1), score),
                       enumeration[Len(enumeration)], score)

Enumerations(S) ==
    {e \in [1..Cardinality(S) -> S] : \A i, j \in DOMAIN e : i # j => e[i] # e[j]}

Take(s, k) == SubSeq(s, 1, IF k < Len(s) THEN k ELSE Len(s))

RECURSIVE Project(_, _, _)
Project(sorted_docs, score, id_to_url) ==
    IF sorted_docs = <<>> THEN <<>>
    ELSE LET doc_id == Head(sorted_docs)
             rest == Project(Tail(sorted_docs), score, id_to_url)
         IN  IF doc_id \in DOMAIN id_to_url
             THEN <<[url |-> id_to_url[doc_id], score |-> score[doc_id]]>> \o rest
             ELSE rest

\* search, from the fetched postings f and dfs g on (dfs: df_cache before the
\* call, n: total_docs).  enumeration: the order in which Python iterates the
\* candidate set.
Rank(top_k, query_terms, f, g, enumeration, dfs, n, id_to_url) ==
    LET term_postings == f.term_postings
        candidate_docs == CandidateDocs(term_postings)
        scored == query_terms # <<>> /\ DOMAIN term_postings # {} /\ candidate_docs # {}
        score == [d \in candidate_docs |->
                    DocScore(d, query_terms, term_postings, g.term_dfs, n)]
        sorted_docs == SortByScore(enumeration, score)
    IN  [postings_cache |-> IF scored THEN g.cache ELSE f.cache,
         df_cache |-> IF scored THEN g.df_cache ELSE dfs,
         results |-> IF scored THEN Project(Take(sorted_docs, top_k), score, id_to_url)
                     ELSE <<>>,
         candidate_docs |-> candidate_docs,
         score |-> score,
         matching_terms |->
            [d \in candidate_docs |->
                Cardinality(MatchingTerms(d, query_terms, term_postings))]]

\* The inverted_index.json the engine reads.
IndexFile ==
    [state |-> final_index_file.state, data |-> final_index_file.data,
     keys |-> index_file_keys]

\* What search can return and leave in the caches once the query is processed
\* into query_terms, when it starts with the caches cache and dfs and the reads
\* of the terms in failing raise.
TermsOutcomes(query_terms, top_k, failing, cache, dfs, file, n, id_to_url) ==
    UNION {UNION {
        {Rank(top_k, query_terms, f, g, enumeration, dfs, n, id_to_url) :
            enumeration \in Enumerations(CandidateDocs(f.term_postings))} :
        g \in {FetchDfs(query_terms, DOMAIN f.term_postings, EmptyDict, dfs, f.cache,
                        file, failing)}} :
        f \in {FetchPostings(query_terms, EmptyDict, cache, file, failing)}}

\* What search(query, top_k) can return and leave in the caches.
SearchOutcomes(query, top_k, failing, cache, dfs, file, n, id_to_url) ==
    UNION {TermsOutcomes(query_terms, top_k, failing, cache, dfs, file, n, id_to_url) :
              query_terms \in {process_query(query)}}

\* M3SearchEngine.search(query, top_k).  failing: the terms whose read from
\* disk raises during this search.
SearchCall(query, top_k) ==
    /\ LET query_terms == process_query(query)
       IN  \E failing \in SUBSET (Range(query_terms) \ CacheTerms(postings_cache)) :
              \E r \in SearchOutcomes(query, top_k, failing, postings_cache, df_cache,
                                      IndexFile, total_docs, doc_mappings.id_to_url) :
                 /\ postings_cache' = r.postings_cache
                 /\ df_cache' = r.df_cache
                 /\ results' = r.results
                 /\ lastQuery' = [query |-> query, top_k |-> top_k,
                                  query_terms |-> query_terms, failing |-> failing,
                                  candidate_docs |-> r.candidate_docs,
                                  matching_terms |-> r.matching_terms,
                                  score |-> r.score]
    /\ UNCHANGED <<builder, disk, files_processed, stats, lastCall, corpus,
                   history, doc_mappings, total_docs, reader>>

Search(query, top_k) ==
    /\ pc = "serving"
    /\ SearchCall(query, top_k)
    /\ UNCHANGED <<pc, console>>

(***************************************************************************)
(* The query process: an M3SearchEngine constructed over the artifacts of  *)
(* a build of MaxDocs documents.                                           *)
(***************************************************************************)
DocUrls == <<<<"x">>, <<"y">>, <<"z">>, <<"w">>>>

SearchDocs == 0..(MaxDocs - 1)

SearchPostingLists ==
    UNION {[D -> {[tf |-> 1, is_important |-> FALSE], [tf |-> 2, is_important |-> TRUE]}]
              : D \in SUBSET SearchDocs}

\* The keys of an index over Terms, in the order a build that meets "cat"
\* before "dog" writes them.
TermOrder == <<"cat", "dog">>

RECURSIVE Filter(_, _)
Filter(seq, S) ==
    IF seq = <<>> THEN <<>>
    ELSE IF Head(seq) \in S THEN <<Head(seq)>> \o Filter(Tail(seq), S)
    ELSE Filter(Tail(seq), S)

KeysInOrder(S) == Filter(TermOrder, S)

SearchIndexes ==
    {[t \in {x \in Terms : DOMAIN c[x] # {}} |-> c[t]] : c \in [Terms -> SearchPostingLists]}

SearchMapping ==
    [url_to_id |-> [u \in {DocUrls[d + 1] : d \in SearchDocs} |->
                       CHOOSE d \in SearchDocs : DocUrls[d + 1] = u],
     id_to_url |-> StrKeys([d \in SearchDocs |-> DocUrls[d + 1]])]

\* M3SearchEngine._load_doc_mappings
LoadDocMappings(file) ==
    [url_to_id |-> file.data.url_to_id, id_to_url |-> IntKeys(file.data.id_to_url)]

TopKs == {1, DefaultTopK}

InitSearch ==
    /\ pc = "serving"
    /\ max_docs_in_memory = 1
    /\ total_files = 0
    /\ index = EmptyDict
    /\ doc_ids = EmptyDict
    /\ doc_id_to_url = EmptyDict
    /\ next_doc_id = 0
    /\ docs_in_memory = 0
    /\ partial_index_count = 0
    /\ partial_dir = EmptyDict
    /\ partial_dir_exists = FALSE
    /\ final_index_file \in {Whole(IndexData(idx)) : idx \in SearchIndexes}
    /\ doc_mapping_file = Whole(SearchMapping)
    /\ files_processed = 0
    /\ stats = NoStats
    /\ lastCall = NoCall
    /\ corpus = {}
    /\ segments_written = <<>>
    /\ recorded = {}
    /\ calls = <<>>
    /\ held = NoHeld
    /\ doc_mappings = LoadDocMappings(doc_mapping_file)
    /\ total_docs = Cardinality(DOMAIN doc_mappings.url_to_id)
    /\ df_cache = EmptyDict
    /\ postings_cache = <<>>
    /\ results = <<>>
    /\ lastQuery = NoQuery
    /\ index_file_keys = KeysInOrder(DOMAIN final_index_file.data)
    /\ optimized_cache = <<>>
    /\ lastRead = NoRead
    /\ stdin = <<>>
    /\ stderr_lines = 0

NextSearch ==
    \E query \in SeqsUpTo(Words, MaxQueryWords), top_k \in TopKs : Search(query, top_k)

SpecSearch == InitSearch /\ [][NextSearch]_vars

(***************************************************************************)
(* The posting readers over one inverted_index.json: M3SearchEngine's      *)
(* on-demand reader and SearchEngine's resident one.  The index holds a    *)
(* word and an all-digit term, in either order of its text.                *)
(***************************************************************************)
\* SearchEngine._get_postings: the whole file decoded by json.load.
ResidentGetPostings(term, file) ==
    IF term \in DOMAIN file.data THEN IntKeys(file.data[term]) ELSE EmptyDict

\* SearchEngine._get_document_frequency, over the resident index.
ResidentGetDocumentFrequency(term, file) ==
    IF term \in DOMAIN file.data THEN Cardinality(DOMAIN file.data[term]) ELSE 0

\* Whether the mapping _get_postings_from_disk returns is the object the cache
\* holds for the term: never, a hit returns self.postings_cache[term].copy()
\* and a miss stores postings.copy() and returns postings.
ReturnsCachedObject_noCopy(term, cache) == term \in CacheTerms(cache)

ReturnsCachedObject(term, cache) == FALSE

\* M3SearchEngine._get_postings(term); fails: whether reading the file raises.
ReadPostings(term, fails) ==
    /\ pc = "serving"
    /\ fails => term \notin CacheTerms(postings_cache)
    /\ \E r \in {GetPostingsFromDisk(term, postings_cache, IndexFile, fails)} :
          /\ postings_cache' = r.cache
          /\ lastRead' = [engine |-> "M3", term |-> term, postings |-> r.postings,
                          resident |-> ResidentGetPostings(term, IndexFile),
                          fails |-> fails]
          /\ held' = [term |-> term, postings |-> r.postings,
                      shared |-> ReturnsCachedObject(term, r.cache)]
    /\ UNCHANGED <<pc, builder, disk, files_processed, stats, lastCall, corpus,
                   segments_written, recorded, calls, doc_mappings, total_docs,
                   df_cache, results, lastQuery, index_file_keys, optimized_cache,
                   console>>

ReaderTerms == {"cat", "0"}

LookupTerms == {"cat", "0", "1", "zzz"}

ReaderQueries == {<<"zzz">>, <<"1", "zzz">>, <<"0">>, <<"Cats", "0">>}

ReaderPostingLists ==
    UNION {[D -> {[tf |-> 1, is_important |-> FALSE]}] : D \in (SUBSET SearchDocs) \ {{}}}

ReaderIndexes == UNION {[T -> ReaderPostingLists] : T \in SUBSET ReaderTerms}

InitReader ==
    /\ pc = "serving"
    /\ max_docs_in_memory = 1
    /\ total_files = 0
    /\ index = EmptyDict
    /\ doc_ids = EmptyDict
    /\ doc_id_to_url = EmptyDict
    /\ next_doc_id = 0
    /\ docs_in_memory = 0
    /\ partial_index_count = 0
    /\ partial_dir = EmptyDict
    /\ partial_dir_exists = FALSE
    /\ final_index_file \in {Whole(IndexData(idx)) : idx \in ReaderIndexes}
    /\ doc_mapping_file = Whole(SearchMapping)
    /\ files_processed = 0
    /\ stats = NoStats
    /\ lastCall = NoCall
    /\ corpus = {}
    /\ segments_written = <<>>
    /\ recorded = {}
    /\ calls = <<>>
    /\ held = NoHeld
    /\ doc_mappings = LoadDocMappings(doc_mapping_file)
    /\ total_docs = Cardinality(DOMAIN doc_mappings.url_to_id)
    /\ df_cache = EmptyDict
    /\ postings_cache = <<>>
    /\ results = <<>>
    /\ lastQuery = NoQuery
    /\ index_file_keys \in Enumerations(DOMAIN final_index_file.data)
    /\ optimized_cache = <<>>
    /\ lastRead = NoRead
    /\ stdin = <<>>
    /\ stderr_lines = 0

NextReader ==
    \/ \E term \in LookupTerms, fails \in BOOLEAN : ReadPostings(term, fails)
    \/ \E query \in ReaderQueries : Search(query, DefaultTopK)

SpecReader == InitReader /\ [][NextReader]_vars

(***************************************************************************)
(* SearchEngine (M2): the resident engine's search, next to M3's, over the *)
(* index of the query process.                                             *)
(***************************************************************************)
\* SearchEngine._process_query
resident_process_query(query) == stem_tokens(tokenize(query))

\* SearchEngine._calculate_tf_idf, in thousandths; the boost of line 228.
calculate_tf_idf(tf, df, n, is_important) ==
    IF df = 0 \/ n = 0 THEN 0
    ELSE LET tf_score == IF tf > 0 THEN 1000 + Ln1000(tf) ELSE 0
             idf_score == Ln1000(n) - Ln1000(df)
             tf_idf == (tf_score * idf_score) \div 1000
         IN  IF is_important THEN (tf_idf * 3) \div 2 ELSE tf_idf

\* search, lines 212-231: one addend for every position of the query.
RECURSIVE ResidentSumScores(_, _, _, _, _, _)
ResidentSumScores(positions, doc_id, query_terms, term_postings, file, n) ==
    IF positions = {} THEN 0
    ELSE LET i == CHOOSE x \in positions : TRUE
             term == query_terms[i]
             posting == term_postings[term][doc_id]
         IN  calculate_tf_idf(posting.tf, ResidentGetDocumentFrequency(term, file), n,
                              posting.is_important)
             + ResidentSumScores(positions \ {i}, doc_id, query_terms, term_postings,
                                 file, n)

ResidentTermPostings(query_terms, file) ==
    [t \in {x \in Range(query_terms) : DOMAIN ResidentGetPostings(x, file) # {}} |->
        ResidentGetPostings(t, file)]

\* SearchEngine.search(query, top_k), once the index is loaded.
ResidentSearch(query, top_k) ==
    /\ pc = "serving"
    /\ final_index_file.state = "whole"
    /\ \E query_terms \in {resident_process_query(query)} :
        \E term_postings \in {ResidentTermPostings(query_terms, IndexFile)} :
         \E candidate_docs \in {CandidateDocs(term_postings)} :
          \E score \in {[d \in candidate_docs |->
                           ResidentSumScores(MatchingTerms(d, query_terms, term_postings),
                                             d, query_terms, term_postings, IndexFile,
                                             total_docs)]} :
           \E enumeration \in Enumerations(candidate_docs) :
              /\ results' = Project(Take(SortByScore(enumeration, score), top_k), score,
                                    doc_mappings.id_to_url)
              /\ lastQuery' = [query |-> query, top_k |-> top_k,
                               query_terms |-> query_terms, failing |-> {},
                               candidate_docs |-> candidate_docs,
                               matching_terms |->
                                  [d \in candidate_docs |->
                                      Cardinality(MatchingTerms(d, query_terms,
                                                                term_postings))],
                               score |-> score]
    /\ UNCHANGED <<pc, builder, disk, files_processed, stats, lastCall, corpus,
                   history, doc_mappings, total_docs, df_cache,
                   postings_cache, reader, console>>

NextResident ==
    \/ \E query \in SeqsUpTo(Words, MaxQueryWords) : Search(query, DefaultTopK)
    \/ \E query \in SeqsUpTo(Words, MaxQueryWords) : ResidentSearch(query, DefaultTopK)

SpecResident == InitSearch /\ [][NextResident]_vars

(***************************************************************************)
(* search_m3.py main: the console over an index directory.                 *)
(***************************************************************************)
MaxLines == 2

QuitCommands == {"quit", "exit", "q"}

\* A line of input after strip(), as a text.
ConsoleLines == {<<>>, <<"dog">>, <<"quit">>, <<"Exit">>, <<"Q">>}

\* query.lower() in ['quit', 'exit', 'q']
IsQuit(query) == Len(query) = 1 /\ Lower(query[1]) \in QuitCommands

\* Indexes of the one term "dog", each posting with tf = 1.
ConsoleIndexes ==
    {idx \in SearchIndexes :
        DOMAIN idx = {"dog"} /\ \A d \in DOMAIN idx["dog"] : idx["dog"][d].tf = 1}

\* main, lines 25-30: M3SearchEngine(index_dir), which raises only from
\* _load_doc_mappings; main then exits with status 1.
Construct ==
    /\ pc = "starting"
    /\ IF doc_mapping_file.state # "whole"
       THEN /\ pc' = "exit_1"
            /\ UNCHANGED <<doc_mappings, total_docs>>
       ELSE /\ pc' = "serving"
            /\ doc_mappings' = LoadDocMappings(doc_mapping_file)
            /\ total_docs' = Cardinality(DOMAIN doc_mapping_file.data.url_to_id)
    /\ df_cache' = EmptyDict
    /\ postings_cache' = <<>>
    /\ UNCHANGED <<builder, disk, files_processed, stats, lastCall, corpus,
                   history, results, lastQuery, reader, console>>

\* main, lines 38-69: one turn of the loop.  input() at end of input raises
\* EOFError, which the loop's except Exception catches and reports.
ReadLine ==
    /\ pc = "serving"
    /\ IF stdin = <<>>
       THEN /\ stderr_lines' = 1 - stderr_lines
            /\ UNCHANGED <<pc, stdin, builder, disk, files_processed, stats, lastCall,
                           corpus, history, doc_mappings, total_docs,
                           df_cache, postings_cache, results, lastQuery, reader>>
       ELSE LET query == Head(stdin)
            IN  /\ stdin' = Tail(stdin)
                /\ UNCHANGED stderr_lines
                /\ IF query = <<>>
                   THEN UNCHANGED <<pc, builder, disk, files_processed, stats, lastCall,
                                    corpus, history, doc_mappings, total_docs,
                                    df_cache, postings_cache, results, lastQuery, reader>>
                   ELSE IF IsQuit(query)
                   THEN /\ pc' = "returned"
                        /\ UNCHANGED <<builder, disk, files_processed, stats, lastCall,
                                       corpus, history, doc_mappings,
                                       total_docs, df_cache, postings_cache, results,
                                       lastQuery, reader>>
                   ELSE /\ SearchCall(query, DefaultTopK)
                        /\ UNCHANGED pc

\* main, lines 65-67: KeyboardInterrupt leaves the loop.
Interrupt ==
    /\ pc = "serving"
    /\ pc' = "returned"
    /\ UNCHANGED <<builder, disk, files_processed, stats, lastCall, corpus,
                   history, engine>>

InitConsole ==
    /\ pc = "starting"
    /\ max_docs_in_memory = 1
    /\ total_files = 0
    /\ index = EmptyDict
    /\ doc_ids = EmptyDict
    /\ doc_id_to_url = EmptyDict
    /\ next_doc_id = 0
    /\ docs_in_memory = 0
    /\ partial_index_count = 0
    /\ partial_dir = EmptyDict
    /\ partial_dir_exists = FALSE
    /\ final_index_file \in {NoFile} \cup {Whole(IndexData(idx)) : idx \in ConsoleIndexes}
    /\ doc_mapping_file \in {NoFile, Whole(SearchMapping)}
    /\ files_processed = 0
    /\ stats = NoStats
    /\ lastCall = NoCall
    /\ corpus = {}
    /\ segments_written = <<>>
    /\ recorded = {}
    /\ calls = <<>>
    /\ held = NoHeld
    /\ doc_mappings = NoMappings
    /\ total_docs = 0
    /\ df_cache = EmptyDict
    /\ postings_cache = <<>>
    /\ results = <<>>
    /\ lastQuery = NoQuery
    /\ index_file_keys = KeysInOrder(DOMAIN final_index_file.data)
    /\ optimized_cache = <<>>
    /\ lastRead = NoRead
    /\ stdin \in SeqsUpTo(ConsoleLines, MaxLines)
    /\ stderr_lines = 0

NextConsole == Construct \/ ReadLine \/ Interrupt

\* main runs to its next statement whenever it has one.
SpecConsole == InitConsole /\ [][NextConsole]_vars /\ WF_vars(NextConsole)

(***************************************************************************)
(* The posting caches at their limits.  The index holds FillerCount terms  *)
(* a1, b2, a3, b4, ... (the a's posted in document 0, the b's in document  *)
(* 1) followed by cat and dog.  M3SearchEngine has answered the queries    *)
(* "a1 b2", "a3 b4", ...: each caches its two terms and returns before any *)
(* df is computed, the two posting lists having no document in common.     *)
(* OptimizedSearchEngine has looked up the terms from the fourth on (the   *)
(* first three lie in the first SeekBack characters of the file).          *)
(***************************************************************************)
CacheSizeLimit == 1000

SeekBack == 100

OptimizedLimit == 100000

FillerCount == 1003

FillerTerm(i) == (IF i % 2 = 1 THEN "a" ELSE "b") \o ToString(i)

FillerDoc(i) == IF i % 2 = 1 THEN 0 ELSE 1

FillerEntry(i) ==
    [term |-> FillerTerm(i),
     postings |-> (FillerDoc(i) :> [tf |-> 1, is_important |-> FALSE])]

FillerKeys == [i \in 1..FillerCount |-> FillerTerm(i)]

\* The cache after lookups of the filler terms from..to, in that order.
FilledCache(from, to) == [i \in 1..(to - from + 1) |-> FillerEntry(from + i - 1)]

CachePosting == [tf |-> 1, is_important |-> FALSE]

CacheIndexData ==
    LET odd == {FillerTerm(i) : i \in {j \in 1..FillerCount : j % 2 = 1}}
        even == {FillerTerm(i) : i \in {j \in 1..FillerCount : j % 2 = 0}}
    IN  [t \in odd \cup even \cup {"cat", "dog"} |->
            IF t \in odd THEN StrKeys(0 :> CachePosting)
            ELSE IF t \in even THEN StrKeys(1 :> CachePosting)
            ELSE StrKeys(0 :> CachePosting @@ 1 :> CachePosting)]

\* match.start() of the i-th top-level key of the text.
RECURSIVE KeyPosition(_, _)
KeyPosition(file, i) ==
    IF i = 1 THEN 1
    ELSE KeyPosition(file, i - 1) + Len(file.keys[i - 1]) + 4
             + ObjectLength(file.data[file.keys[i - 1]]) + 2

\* f.seek(term_positions[term] - 100) raises on a negative offset.  An entry
\* of the text takes more than 33 characters, so only the first three keys
\* can lie before SeekBack.
SeekRaises(term, file) ==
    \E i \in 1..3 :
        /\ i \in DOMAIN file.keys
        /\ file.keys[i] = term
        /\ KeyPosition(file, i) < SeekBack

\* OptimizedSearchEngine._get_postings_from_disk, for a term that is a
\* top-level key of the text or occurs nowhere in it as a key.
OptimizedGetPostings(term, cache, file, fails) ==
    IF term \in CacheTerms(cache)
    THEN [postings |-> CacheLookup(cache, term), cache |-> cache]
    ELSE IF file.state = "absent" \/ fails \/ term \notin DOMAIN file.data
            \/ SeekRaises(term, file)
    THEN [postings |-> EmptyDict, cache |-> cache]
    ELSE LET object == file.data[term]
             postings == IntKeys(object)
         IN  [postings |-> postings,
              cache |-> IF /\ ObjectLength(object) <= OptimizedLimit
                           /\ Len(cache) < CacheSizeLimit
                        THEN Append(cache, [term |-> term, postings |-> postings])
                        ELSE cache]

\* OptimizedSearchEngine._get_postings(term)
OptimizedReadPostings(term) ==
    /\ pc = "serving"
    /\ \E r \in {OptimizedGetPostings(term, optimized_cache, IndexFile, FALSE)} :
          /\ optimized_cache' = r.cache
          /\ lastRead' = [engine |-> "Optimized", term |-> term,
                          postings |-> r.postings,
                          resident |-> ResidentGetPostings(term, IndexFile),
                          fails |-> FALSE]
    /\ UNCHANGED <<pc, builder, disk, files_processed, stats, lastCall, corpus,
                   history, doc_mappings, total_docs, df_cache,
                   postings_cache, results, lastQuery, index_file_keys, console>>

OptimizedLookups == {"a1", "cat", "dog"}

CacheQueries == {<<"a1">>, <<"Cats">>, <<"dog">>}

InitCache ==
    /\ pc = "serving"
    /\ max_docs_in_memory = 1
    /\ total_files = 0
    /\ index = EmptyDict
    /\ doc_ids = EmptyDict
    /\ doc_id_to_url = EmptyDict
    /\ next_doc_id = 0
    /\ docs_in_memory = 0
    /\ partial_index_count = 0
    /\ partial_dir = EmptyDict
    /\ partial_dir_exists = FALSE
    /\ final_index_file = Whole(CacheIndexData)
    /\ doc_mapping_file = Whole(SearchMapping)
    /\ files_processed = 0
    /\ stats = NoStats
    /\ lastCall = NoCall
    /\ corpus = {}
    /\ segments_written = <<>>
    /\ recorded = {}
    /\ calls = <<>>
    /\ held = NoHeld
    /\ doc_mappings = LoadDocMappings(doc_mapping_file)
    /\ total_docs = Cardinality(DOMAIN doc_mappings.url_to_id)
    /\ df_cache = EmptyDict
    /\ postings_cache \in {FilledCache(1, CacheMaxSize - 2), FilledCache(1, CacheMaxSize)}
    /\ results = <<>>
    /\ lastQuery = NoQuery
    /\ index_file_keys = FillerKeys \o <<"cat", "dog">>
    /\ optimized_cache \in {FilledCache(4, CacheSizeLimit + 1),
                            FilledCache(4, CacheSizeLimit + 3)}
    /\ lastRead = NoRead
    /\ stdin = <<>>
    /\ stderr_lines = 0

NextCache ==
    \/ \E term \in OptimizedLookups : OptimizedReadPostings(term)
    \/ \E query \in CacheQueries : Search(query, DefaultTopK)

SpecCache == InitCache /\ [][NextCache]_vars

(***************************************************************************)
(* A caller of M3SearchEngine._get_postings that edits the mapping it was  *)
(* given, over the cache at its limit.                                     *)
(***************************************************************************)
CallerTerms == {"a1", "cat", "zzz"}

CallerQueries == {<<"dog">>}

CallerDocs == 0..1

Without(postings, d) == [x \in DOMAIN postings \ {d} |-> postings[x]]

\* postings[d] = {...} or del postings[d] on the mapping held.  The cache's
\* entry changes with it when it is the same object.
CallerEdits(d, adds) ==
    /\ pc = "serving"
    /\ held.term # ""
    /\ \E edited \in {IF adds THEN Put(held.postings, d, CachePosting)
                      ELSE Without(held.postings, d)} :
          /\ edited # held.postings
          /\ held' = [held EXCEPT !.postings = edited]
          /\ postings_cache' =
                IF held.shared
                THEN [i \in DOMAIN postings_cache |->
                        IF postings_cache[i].term = held.term
                        THEN [postings_cache[i] EXCEPT !.postings = edited]
                        ELSE postings_cache[i]]
                ELSE postings_cache
    /\ UNCHANGED <<pc, builder, disk, files_processed, stats, lastCall, corpus,
                   segments_written, recorded, calls, doc_mappings, total_docs,
                   df_cache, results, lastQuery, reader, console>>

NextCaller ==
    \/ \E term \in CallerTerms, fails \in BOOLEAN : ReadPostings(term, fails)
    \/ \E d \in CallerDocs, adds \in BOOLEAN : CallerEdits(d, adds)
    \/ \E query \in CallerQueries : Search(query, DefaultTopK)

SpecCaller == InitCache /\ [][NextCaller]_vars

(***************************************************************************)
(* Properties of the build.                                                *)
(***************************************************************************)
Finalized == pc \in {"done", "reported"}

TotalDocs == Cardinality(DOMAIN doc_ids)

\* C2: when the number of distinct documents exceeds max_docs_in_memory, the
\* number of segments written by the end of finalize is at least
\* ceil(total_docs / max_docs_in_memory), whatever the documents' tokens.
C2_SpillCount ==
    (Finalized /\ TotalDocs > max_docs_in_memory)
        => partial_index_count >= CeilDiv(TotalDocs, max_docs_in_memory)

\* C3: after finalize has returned, no segment file and no mapping snapshot is
\* left, and inverted_index.json and doc_mapping.json both exist, whole.
C3_FinalizeArtifacts ==
    Finalized =>
        /\ DOMAIN partial_dir = {}
        /\ final_index_file.state = "whole"
        /\ doc_mapping_file.state = "whole"

C3_Witness ==
    /\ pc = "done"
    /\ partial_index_count >= 2
    /\ DOMAIN final_index_file.data # {}

Occurrences(token, tokens) == Cardinality({i \in DOMAIN tokens : tokens[i] = token})

HasPosting(idx, t, d) == t \in DOMAIN idx /\ d \in DOMAIN idx[t]

\* C4: a step of add_document(url, tokens, important_tokens) leaves, for every
\* term of either list, the posting (term, doc-id of url) with tf = occurrences
\* in tokens + occurrences in important_tokens and is_important = the term
\* occurs in important_tokens, in the accumulator or in the segment the call
\* spilled it to; the posting of a term of neither list is what it was before;
\* and every posting of the accumulator has tf >= 1.
C4_AddDocumentPostings ==
    [][ (lastCall'.op = "add_document" /\ files_processed' # files_processed) =>
          LET c == lastCall'
              d == c.doc_id
              spilled == Len(segments_written') > Len(segments_written)
              after == IF spilled
                       THEN segments_written'[Len(segments_written')]
                       ELSE index'
              key == IF spilled THEN Str(d) ELSE d
          IN  /\ doc_ids'[c.url] = d
              /\ \A t \in Terms :
                    LET body == Occurrences(t, c.tokens)
                        important == Occurrences(t, c.important_tokens)
                    IN  IF body + important > 0
                        THEN /\ HasPosting(after, t, key)
                             /\ after[t][key] = [tf |-> body + important,
                                                 is_important |-> important >= 1]
                        ELSE /\ HasPosting(after, t, key) <=> HasPosting(index, t, d)
                             /\ HasPosting(index, t, d) => after[t][key] = index[t][d]
              /\ \A t \in DOMAIN index' : \A e \in DOMAIN index'[t] :
                    index'[t][e].tf >= 1
      ]_vars

C4_Witness ==
    /\ lastCall.op = "add_document"
    /\ lastCall.tokens = <<"cat", "cat">>
    /\ lastCall.important_tokens = <<"cat">>
    /\ HasPosting(index, "cat", lastCall.doc_id)
    /\ index["cat"][lastCall.doc_id] = [tf |-> 3, is_important |-> TRUE]
    /\ HasPosting(index, "dog", lastCall.doc_id)

SegmentsWith(t, k) ==
    {i \in DOMAIN segments_written :
        t \in DOMAIN segments_written[i] /\ k \in DOMAIN segments_written[i][t]}

RECURSIVE SumTf(_, _, _)
SumTf(S, t, k) ==
    IF S = {} THEN 0
    ELSE LET i == CHOOSE x \in S : TRUE
         IN  segments_written[i][t][k].tf + SumTf(S \ {i}, t, k)

\* C5: in the final index the posting of (term, doc-id) has tf = the sum of the
\* pair's tf over the segments holding it and is_important = the OR of its
\* flags there; a pair of no segment has no posting.
C5_MergeCoalescing ==
    Finalized =>
        \A t \in Terms, d \in 0..(next_doc_id - 1) :
            LET k == Str(d)
                S == SegmentsWith(t, k)
                final == final_index_file.data
            IN  IF S = {} THEN ~HasPosting(final, t, k)
                ELSE /\ HasPosting(final, t, k)
                     /\ final[t][k].tf = SumTf(S, t, k)
                     /\ final[t][k].is_important
                            = (\E i \in S : segments_written[i][t][k].is_important)

C5_Witness ==
    /\ pc = "done"
    /\ \E t \in Terms, d \in 0..(next_doc_id - 1) :
          LET k == Str(d)
              S == SegmentsWith(t, k)
          IN  /\ Cardinality(S) = 2
              /\ \E i, j \in S : /\ segments_written[i][t][k].is_important
                                 /\ ~segments_written[j][t][k].is_important
              /\ final_index_file.data[t][k].is_important
              /\ final_index_file.data[t][k].tf >= 3

\* C6: a url keeps the doc-id of its first add_document, a url first seen later
\* gets a doc-id above every doc-id assigned before, and no two urls share a
\* doc-id, across spills.
C6_DocIdMonotonic ==
    [][ /\ \A u \in DOMAIN doc_ids : u \in DOMAIN doc_ids' /\ doc_ids'[u] = doc_ids[u]
        /\ \A u \in DOMAIN doc_ids' \ DOMAIN doc_ids :
              \A v \in DOMAIN doc_ids : doc_ids'[u] > doc_ids[v]
        /\ \A u, v \in DOMAIN doc_ids' : u # v => doc_ids'[u] # doc_ids'[v]
      ]_vars

C6_Witness ==
    /\ lastCall.op = "add_document"
    /\ lastCall.doc_id = 2
    /\ max_docs_in_memory = 1
    /\ partial_index_count = 3
    /\ Cardinality(DOMAIN doc_ids) = 3

\* The url truncated at its first '#'.
TruncatedAtHash(u) ==
    LET k == CHOOSE n \in 0..Len(u) :
                /\ \A i \in 1..n : u[i] # "#"
                /\ n = Len(u) \/ u[n + 1] = "#"
    IN  SubSeq(u, 1, k)

\* The canonical urls of the records read that have a url and content.
AllCanonicalUrls == {TruncatedAtHash(r.url) : r \in {x \in corpus : x.url # <<>>}}

\* Those among them of a record whose processing did not raise.
CanonicalUrls ==
    {TruncatedAtHash(r.url) : r \in {x \in corpus : x.url # <<>> /\ ~x.raises}}

\* C7: in doc_mapping.json as finalize writes it, every doc-id of a posting of
\* the final index has an entry of id_to_url, url_to_id has one entry per
\* canonical url, and url_to_id and id_to_url are inverse to each other.
C7_DocMappingBijection ==
    Finalized =>
        LET m == doc_mapping_file.data
            final == final_index_file.data
        IN  /\ \A t \in DOMAIN final : \A k \in DOMAIN final[t] : k \in DOMAIN m.id_to_url
            /\ DOMAIN m.url_to_id = CanonicalUrls
            /\ \A u \in DOMAIN m.url_to_id :
                  /\ Str(m.url_to_id[u]) \in DOMAIN m.id_to_url
                  /\ m.id_to_url[Str(m.url_to_id[u])] = u
            /\ \A k \in DOMAIN m.id_to_url :
                  /\ m.id_to_url[k] \in DOMAIN m.url_to_id
                  /\ Str(m.url_to_id[m.id_to_url[k]]) = k

C7_Witness ==
    /\ pc = "done"
    /\ partial_index_count = 1
    /\ max_docs_in_memory = 2
    /\ Cardinality(DOMAIN doc_mapping_file.data.url_to_id) = 3
    /\ DOMAIN final_index_file.data # {}

\* C8 as stated: the number of documents the build reports, and the size of
\* the doc mapping, equal the number of distinct canonical urls among the
\* records that have a url and content.
C8_NumDocuments_AllRecords ==
    pc = "reported" =>
        /\ stats.num_documents = Cardinality(AllCanonicalUrls)
        /\ Cardinality(DOMAIN doc_mapping_file.data.url_to_id)
              = Cardinality(AllCanonicalUrls)

\* C8 as amended: the number of documents the build reports, and the size of
\* the doc mapping, equal the number of distinct canonical urls among the
\* records that have a url and content and whose processing did not raise.
C8_NumDocuments ==
    pc = "reported" =>
        /\ stats.num_documents = Cardinality(CanonicalUrls)
        /\ Cardinality(DOMAIN doc_mapping_file.data.url_to_id) = Cardinality(CanonicalUrls)

C8_Witness ==
    /\ pc = "reported"
    /\ files_processed = 3
    /\ corpus = {[url |-> <<"x">>, raises |-> FALSE],
                 [url |-> <<"x", "#", "s">>, raises |-> FALSE],
                 [url |-> <<"y">>, raises |-> TRUE]}
    /\ stats.num_documents = 1

\* C9: when finalize fails reading a segment, writing the final index or
\* writing the doc mapping, every segment written so far is still on disk,
\* whole, with its mapping snapshot.
C9_SegmentsRetained ==
    (pc = "aborted" /\ lastCall.op = "finalize" /\ lastCall.io \in MergeIO) =>
        /\ Len(segments_written) = partial_index_count
        /\ \A i \in 0..(partial_index_count - 1) :
              /\ PartialIndexFile(i) \in DOMAIN partial_dir
              /\ partial_dir[PartialIndexFile(i)] = Whole(segments_written[i + 1])
              /\ PartialMappingFile(i) \in DOMAIN partial_dir
              /\ partial_dir[PartialMappingFile(i)].state = "whole"

C9_Witness ==
    /\ pc = "aborted"
    /\ lastCall.op = "finalize"
    /\ lastCall.io = "mapping_write"
    /\ partial_index_count = 2
    /\ final_index_file.state = "whole"

\* C10: a build that an I/O error aborted has produced no inverted_index.json,
\* whole or partial.
C10_NoFinalIndexOnAbort ==
    pc = "aborted" => final_index_file.state = "absent"

(***************************************************************************)
(* Properties of the query process.                                        *)
(***************************************************************************)
\* C1: every document search returns has a posting for every term of the
\* deduplicated stemmed query; when a query term has no posting list in the
\* index, search returns nothing.
ResultDocs == {doc_mappings.url_to_id[results[i].url] : i \in DOMAIN results}

C1_StrictAnd ==
    lastQuery.query_terms # <<>> =>
        \A i \in DOMAIN results :
            \A t \in Range(lastQuery.query_terms) :
                HasPosting(final_index_file.data, t,
                           Str(doc_mappings.url_to_id[results[i].url]))

(***************************************************************************)
(* Properties of the console.                                              *)
(***************************************************************************)
\* C11: an engine over a directory without inverted_index.json is never
\* constructed: the console is not serving and no query has been answered.
C11_MissingIndexFatal ==
    final_index_file.state = "absent" => pc # "serving" /\ lastQuery = NoQuery

AtStop == pc = "serving" /\ (stdin = <<>> \/ IsQuit(Head(stdin)))

\* C20: once the loop is to read quit, exit or q in any letter case, or has
\* reached the end of its input, it eventually exits.
C20_LoopTerminates == AtStop ~> (pc = "returned")

(***************************************************************************)
(* Properties of the posting readers.                                      *)
(***************************************************************************)
AbsentTerm(term) == term \notin DOMAIN final_index_file.data

\* C12: a lookup of a term that is not a key of the index gives the empty
\* mapping, and a search all of whose terms are absent gives the empty list.
C12_AbsentTermEmpty ==
    /\ (lastRead.engine = "M3" /\ AbsentTerm(lastRead.term))
          => lastRead.postings = EmptyDict
    /\ (lastQuery # NoQuery /\ \A t \in Range(lastQuery.query_terms) : AbsentTerm(t))
          => results = <<>>

\* An absent all-digit term that is the id of an indexed document has been
\* looked up, and a search of absent terms only has been answered.
C12_Witness ==
    /\ lastRead.engine = "M3" /\ ~lastRead.fails
    /\ AbsentTerm(lastRead.term)
    /\ \E t \in DOMAIN final_index_file.data :
          \E d \in DOMAIN final_index_file.data[t] : KeyText(d) = lastRead.term
    /\ Len(lastQuery.query_terms) = 2
    /\ \A t \in Range(lastQuery.query_terms) : AbsentTerm(t)

\* C17: the on-demand reader returns the mapping the resident reader returns.
C17_ReadersAgree ==
    (lastRead.engine = "M3" /\ ~lastRead.fails) => lastRead.postings = lastRead.resident

\* The query terms with those whose read raises replaced by terms that are in
\* no index (a stem holds no space).
AsAbsent(query_terms, failing) ==
    [i \in DOMAIN query_terms |->
        IF query_terms[i] \in failing THEN "no " \o query_terms[i] ELSE query_terms[i]]

\* C13: a lookup whose read raises returns the empty mapping and leaves the
\* posting cache as it was; a search during which the reads of some terms
\* raise returns what it returns when those terms are absent from the index,
\* and none of them is in the posting cache afterwards.
C13_ReadErrorNotFatal ==
    [][/\ (lastRead' # lastRead /\ lastRead'.fails)
             => (lastRead'.postings = EmptyDict /\ postings_cache' = postings_cache)
       /\ (lastRead' = lastRead)
             => /\ lastQuery'.failing \cap CacheTerms(postings_cache') = {}
                /\ results' \in
                      {r.results :
                          r \in TermsOutcomes(AsAbsent(lastQuery'.query_terms,
                                                       lastQuery'.failing),
                                              lastQuery'.top_k, {}, postings_cache,
                                              df_cache, IndexFile, total_docs,
                                              doc_mappings.id_to_url)}]_vars

\* The read of an indexed term has raised in a lookup, and in a search that
\* still returned a document.
C13_Witness ==
    /\ lastRead.fails /\ ~AbsentTerm(lastRead.term)
    /\ \E t \in lastQuery.failing : ~AbsentTerm(t)
    /\ results # <<>>

(***************************************************************************)
(* Properties of the ranking.                                              *)
(***************************************************************************)
\* C14: the scores of the returned list never increase from one result to
\* the next, and no candidate left out of the list has a strictly higher
\* score than a returned one.
C14_TopKMonotonic ==
    /\ \A i \in DOMAIN results :
          i + 1 \in DOMAIN results => results[i].score >= results[i + 1].score
    /\ \A d \in lastQuery.candidate_docs \ ResultDocs :
          \A e \in ResultDocs : lastQuery.score[d] <= lastQuery.score[e]

\* A search with top_k = 1 has returned one of two candidates of different
\* scores.
C14_Witness ==
    /\ lastQuery.top_k = 1
    /\ Len(results) = 1
    /\ \E d, e \in lastQuery.candidate_docs : lastQuery.score[d] < lastQuery.score[e]

\* C15: of two returned documents of equal score, the one with the smaller
\* doc-id comes first.
C15_TieByDocId ==
    \A i, j \in DOMAIN results :
        (i < j /\ results[i].score = results[j].score)
            => doc_mappings.url_to_id[results[i].url]
                   < doc_mappings.url_to_id[results[j].url]

\* The ranked lists search(query, top_k) can return from the caches cache and
\* dfs when no read raises.
ResultLists(query, top_k, cache, dfs) ==
    {r.results : r \in SearchOutcomes(query, top_k, {}, cache, dfs, IndexFile,
                                      total_docs, doc_mappings.id_to_url)}

EvictsEarliest(old, new, k) ==
    /\ k <= Len(old)
    /\ Len(new) >= Len(old) - k
    /\ \A i \in 1..(Len(old) - k) : new[i] = old[i + k]
    /\ k > 0 => Len(new) = CacheMaxSize

DfTerms == {"a1", "b2", "cat", "dog", "zzz"}

C21_WarnBelowTarget ==
    pc = "reported" => (stats.warning <=> stats.partial_indexes < 4)

\* C22: the threshold computed for a corpus of at least one file gives at
\* least 4 segments, at least 10 for more than 20000 files and at least 8
\* for more than 10000.
C22_SpillCountSizing ==
    (pc = "building" /\ total_files >= 1)
        => LET segments == CeilDiv(total_files, max_docs_in_memory)
           IN  /\ segments >= 4
               /\ total_files > 20000 => segments >= 10
               /\ total_files > 10000 => segments >= 8

(***************************************************************************)
(* Properties of the accumulator and its segments.                         *)
(***************************************************************************)
\* The accumulator as add_document leaves it, or as it has just been written
\* to a segment when the call spilled.
AccumulatorAfterCall ==
    IF partial_index_count' > partial_index_count
    THEN LET segment == segments_written'[Len(segments_written')]
         IN  [t \in DOMAIN segment |-> IntKeys(segment[t])]
    ELSE index'

\* C23: when add_document is called for a URL whose document already has
\* postings in the accumulator, the accumulator's postings for that doc-id
\* are afterwards exactly those of this call's tokens.
C23_SecondCallWins ==
    [][(/\ lastCall'.op = "add_document"
        /\ pc' # "aborted"
        /\ lastCall'.url \in DOMAIN doc_ids
        /\ \E t \in DOMAIN index : lastCall'.doc_id \in DOMAIN index[t])
          => LET acc == AccumulatorAfterCall
                 d == lastCall'.doc_id
                 tokens == lastCall'.tokens
                 important_tokens == lastCall'.important_tokens
             IN  \A t \in DOMAIN acc :
                    d \in DOMAIN acc[t]
                        => /\ t \in Range(tokens) \cup Range(important_tokens)
                           /\ acc[t][d] = NewPosting(t, tokens, important_tokens)]_vars

\* C24: whenever add_document has returned, the in-memory document counter
\* is below max_docs_in_memory.
C24_CounterBelowThreshold ==
    (pc = "building" /\ lastCall.op = "add_document")
        => docs_in_memory < max_docs_in_memory

(***************************************************************************)
(* Properties of the query normalization and of the scores.                *)
(***************************************************************************)
FirstOccurrence(seq, x) ==
    CHOOSE i \in DOMAIN seq : seq[i] = x /\ \A j \in 1..(i - 1) : seq[j] # x

\* C25: the term list a search works on holds each distinct stemmed term of
\* the query exactly once, in the order of first occurrence.
C25_QueryDeduplicated ==
    lastQuery # NoQuery =>
        LET stemmed == stem_tokens(tokenize(lastQuery.query))
            terms == lastQuery.query_terms
        IN  /\ Range(terms) = Range(stemmed)
            /\ \A i, j \in DOMAIN terms : i # j => terms[i] # terms[j]
            /\ \A i, j \in DOMAIN terms :
                  i < j => FirstOccurrence(stemmed, terms[i])
                              < FirstOccurrence(stemmed, terms[j])

\* C26: every candidate that search scores matches all the terms of the
\* deduplicated query.
C26_CandidatesMatchAll ==
    \A d \in lastQuery.candidate_docs :
        lastQuery.matching_terms[d] = Len(lastQuery.query_terms)

\* The files of the segments written so far.
SegmentFiles(cnt) ==
    {PartialIndexFile(i) : i \in 0..(cnt - 1)}
        \cup {PartialMappingFile(i) : i \in 0..(cnt - 1)}

\* C27: a step changes no file of a segment already written; such a file
\* leaves the directory only when finalize has succeeded; the segment count
\* grows by at most one, and a new segment takes a file number not in use.
C27_SegmentsWriteOnce ==
    [][/\ partial_index_count' \in {partial_index_count, partial_index_count + 1}
       /\ \A f \in SegmentFiles(partial_index_count) \cap DOMAIN partial_dir :
             IF f \in DOMAIN partial_dir'
             THEN partial_dir'[f] = partial_dir[f]
             ELSE lastCall'.op = "finalize" /\ pc' = "done"
       /\ partial_index_count' > partial_index_count
             => /\ PartialIndexFile(partial_index_count) \notin DOMAIN partial_dir
                /\ PartialMappingFile(partial_index_count) \notin DOMAIN partial_dir]_vars

\* Two segments have been written, documents were added after the first,
\* and both are on disk as they were written.
C27_Witness ==
    /\ pc = "building"
    /\ partial_index_count = 2
    /\ lastCall.op = "add_document"
    /\ partial_dir[PartialIndexFile(0)] = Whole(segments_written[1])
    /\ partial_dir[PartialIndexFile(1)] = Whole(segments_written[2])
    /\ segments_written[1] # segments_written[2]

(***************************************************************************)
(* Conservation of postings across spills and the merge.                   *)
(***************************************************************************)
\* The (term, doc_id) pairs of an accumulator, and of the JSON form of an index.
PairsOf(idx) == UNION {{<<t, d>> : d \in DOMAIN idx[t]} : t \in DOMAIN idx}

PairsOfData(data) == PairsOf([t \in DOMAIN data |-> IntKeys(data[t])])

PairsSpilled == UNION {PairsOfData(segments_written[i]) : i \in DOMAIN segments_written}

\* C28: at every point of a build the pairs set by the add_document calls so far
\* are exactly those of the accumulator and of the segments written (a spill
\* clears no pair it did not write), and after a successful finalize the pairs
\* of the final index are exactly the pairs set by all add_document calls.
C28_PostingsConserved ==
    /\ recorded = PairsOf(index) \cup PairsSpilled
    /\ Finalized => PairsOfData(final_index_file.data) = recorded

C28_Witness ==
    /\ pc = "done"
    /\ Len(segments_written) = 2
    /\ PairsOfData(segments_written[1]) \cap PairsOfData(segments_written[2]) # {}
    /\ PairsOfData(segments_written[1]) \ PairsOfData(segments_written[2]) # {}
    /\ PairsOfData(final_index_file.data) = recorded
    /\ Cardinality(recorded) >= 2

(***************************************************************************)
(* InvertedIndex (M1/ANALYST_OPTION/indexer.py): the single-pass in-memory *)
(* index, fed the same add_document calls.                                 *)
(***************************************************************************)
InvertedIndexNew ==
    [index |-> EmptyDict, doc_ids |-> EmptyDict, doc_id_to_url |-> EmptyDict,
     next_doc_id |-> 0]

InvertedIndexAddDocument(self, url, tokens, important_tokens) ==
    LET isNew == url \notin DOMAIN self.doc_ids
        doc_id == IF isNew THEN self.next_doc_id ELSE self.doc_ids[url]
        all_tokens == Range(tokens) \cup Range(important_tokens)
    IN  [index |->
            [t \in DOMAIN self.index \cup all_tokens |->
                IF t \in all_tokens
                THEN Put(Get(self.index, t, EmptyDict), doc_id,
                         NewPosting(t, tokens, important_tokens))
                ELSE self.index[t]],
         doc_ids |-> IF isNew THEN Put(self.doc_ids, url, doc_id) ELSE self.doc_ids,
         doc_id_to_url |-> IF isNew THEN Put(self.doc_id_to_url, doc_id, url)
                           ELSE self.doc_id_to_url,
         next_doc_id |-> IF isNew THEN self.next_doc_id + 1 ELSE self.next_doc_id]

RECURSIVE InvertedIndexOf(_)
InvertedIndexOf(documents) ==
    IF Len(documents) = 0 THEN InvertedIndexNew
    ELSE LET c == documents[Len(documents)]
         IN  InvertedIndexAddDocument(InvertedIndexOf(SubSeq(documents, 1, Len(documents) - 1)),
                                      c.url, c.tokens, c.important_tokens)

\* InvertedIndex.save_to_disk: the two files it writes.
SaveToDisk(self) ==
    [index_file |-> Whole(IndexData(self.index)),
     doc_mapping_file |-> Whole([url_to_id |-> self.doc_ids,
                                 id_to_url |-> StrKeys(self.doc_id_to_url)])]

NoUrlTwice(documents) ==
    \A i, j \in DOMAIN documents : documents[i].url = documents[j].url => i = j

\* C29: when no url was given to add_document twice, the inverted_index.json and
\* doc_mapping.json a successful finalize leaves are, whatever max_docs_in_memory
\* is, the files InvertedIndex.save_to_disk writes after the same calls.
C29_SameAsInMemory ==
    (Finalized /\ NoUrlTwice(calls)) =>
        LET saved == SaveToDisk(InvertedIndexOf(calls))
        IN  /\ final_index_file = saved.index_file
            /\ doc_mapping_file = saved.doc_mapping_file

C29_Witness ==
    /\ pc = "done"
    /\ Len(calls) = 3
    /\ NoUrlTwice(calls)
    /\ max_docs_in_memory = 2
    /\ Len(segments_written) = 2
    /\ Cardinality(DOMAIN final_index_file.data) = 2
    /\ final_index_file = SaveToDisk(InvertedIndexOf(calls)).index_file

(***************************************************************************)
(* Transparency of M3SearchEngine's posting cache.                         *)
(***************************************************************************)
\* What _get_postings_from_disk returns for the term with nothing cached.
FreshRead(term) == GetPostingsFromDisk(term, <<>>, IndexFile, FALSE).postings

====
